---------------------------- MODULE Spec2Model ----------------------------
(***************************************************************************)
(* pkg/publish/s3.go: MutateObject, the read-modify-write cycle against a  *)
(* shared, versioned remote object.  Several publishers (each with its own *)
(* staging directory) call MutateObject against the same object; the only  *)
(* points at which they interleave are the two network calls, GetObject    *)
(* and PutObject.  S3Archive, the upload of a release directory followed   *)
(* by its aliases, has its own specification, ArchiveSpec.                 *)
(*                                                                         *)
(* Strings of the program are modelled as follows: an ETag is a natural    *)
(* number, the empty string "" being 0; a payload is a sequence of         *)
(* entries, one entry per MutateObject call that wrote it (entry 0 is      *)
(* content that was there before the first call).                          *)
(***************************************************************************)
EXTENDS Naturals, Sequences, FiniteSets

\* ------------------------------------------------------------------ bounds
NumProcs == 2           \* concurrent publishers, each with its own outDir
MaxCalls == 2           \* MutateObject calls started in one behaviour

\* ------------------------------------------------------- program constants
MaxAttempts == 10       \* for i := 0; i < 10; i++
NoETag == 0             \* etag := ""

Procs == 1..NumProcs

ErrIndexOutOfDate == "index is out-of-date"

\* The closures f the callers pass: "append" reads the staging file (empty
\* when missing) and rewrites it with its entry appended, "write" replaces
\* the file by its entry, "noop" does not touch the file, "fail" returns an
\* error.
Closures == {"append", "write", "noop", "fail"}

NoFile == [exists |-> FALSE, data |-> <<>>]
File(d) == [exists |-> TRUE, data |-> d]

NoObject == [exists |-> FALSE, body |-> <<>>, etag |-> NoETag]

VARIABLES
    obj,            \* the remote object: exists, body, etag
    alwaysConflict, \* the store is the stub whose Put always reports Conflict
    ncalls,         \* MutateObject calls started so far
    writes,         \* the Puts the store accepted, in order
    pc,             \* per publisher: where it is in MutateObject
    i,              \* the loop counter of MutateObject
    etag,           \* mutateObjectInner's local etag
    outFile,        \* the staging file of the publisher's outDir
    f,              \* the closure of the current call
    entry,          \* the entry the current call's closure writes
    err,            \* what MutateObject returned
    inner,          \* what mutateObjectInner last returned
    getErr,         \* what the attempt's GetObject reported
    putErr,         \* what the attempt's PutObject reported
    gets,           \* GetObject calls of the current MutateObject call
    closures,       \* closure invocations of the current call
    puts,           \* PutObject calls of the current call
    before,         \* the staging file when the current attempt started
    seen,           \* the staging file as the closure found it
    lastGet,        \* what the last GetObject returned: body, etag
    lastPut,        \* the last PutObjectInput: ifMatch, body
    archive         \* the S3Archive call: its inputs, position and uploads

mutatorVars == <<obj, alwaysConflict, ncalls, writes, pc, i, etag, outFile, f, entry,
          err, inner, getErr, putErr, gets, closures, puts, before, seen, lastGet,
          lastPut>>

vars == <<mutatorVars, archive>>

\* ------------------------------------------------------------ the closure
\* What f leaves in the staging file.
Mutate(kind, e, file) ==
    CASE kind = "append" -> File(Append(file.data, e))
      [] kind = "write"  -> File(<<e>>)
      [] OTHER           -> file

ActionFails(kind) == kind = "fail"


\* -------------------------------------------------------------- the store
\* The object store the client talks to.  GetObject reports the object, or
\* NotFound when the key does not exist, or some other failure.
GetResponses(o) ==
    (IF o.exists THEN {"ok"} ELSE {"NotFound"}) \cup {"Failure"}

\* PutObject: a write that carries IfMatch is rejected with
\* PreconditionFailed when the object's current ETag differs; a write that
\* carries none is unconditional.  Any write may fail for another reason and
\* then changes nothing.  The stub store rejects every write.
PutResponses(o, ifMatch, stub) ==
    IF stub THEN {"PreconditionFailed"}
    ELSE IF ifMatch.set /\ (~o.exists \/ o.etag # ifMatch.token)
         THEN {"PreconditionFailed", "Failure"}
         ELSE {"ok", "Failure"}

\* The object after an accepted write: the store assigns a new ETag.
Stored(o, body) == [exists |-> TRUE, body |-> body, etag |-> o.etag + 1]

\* ------------------------------------------------------ mutateObjectInner
Nil == "nil"

\* A fetch that treats NotFound like every other error.
FetchErrorNotFoundFatal(r) ==
    IF r = "ok" THEN Nil ELSE "failed to fetch attributes"

\* A fetch that takes every error for a missing object.
FetchErrorIgnored(r) == Nil

\* if err != nil { if errors.As(err, &notFoundErr) {..} else { return ... } }
FetchError(r) ==
    IF r \in {"ok", "NotFound"} THEN Nil ELSE "failed to fetch attributes"

\* The ETag of the fetched object never captured.
ETagNeverCaptured(r, o) == NoETag

\* etag := ""; if objResult != nil { etag = aws.ToString(objResult.ETag) }
ETagOf(r, o) == IF r = "ok" THEN o.etag ELSE NoETag

\* A write that appends to the staging file instead of replacing it.
WriteFileAppending(idx, file) == File(file.data \o idx)

\* os.WriteFile(outFile, idx, 0o644)
WriteFile(idx, file) == File(idx)

\* A staging file written whatever GetObject reported.
StagedAlways(r, idx, file) == WriteFile(idx, file)

\* if objResult != nil { ...; os.WriteFile(outFile, idx, 0o644) }: the staging
\* file after the fetch step, written only when GetObject returned an object.
Staged(r, idx, file) == IF r = "ok" THEN WriteFile(idx, file) ELSE file

\* The closure's error dropped.
ActionErrorIgnored(kind) == Nil

\* if err := f(); err != nil { return fmt.Errorf("action failed: %v", err) }
ActionError(kind) == IF ActionFails(kind) THEN "action failed" ELSE Nil

\* A PutObjectInput that never carries IfMatch.
IfMatchNever(et) == [set |-> FALSE, token |-> NoETag]

\* if etag != "" { pubObjectInput.IfMatch = aws.String(etag) }
IfMatchOf(et) ==
    IF et # NoETag THEN [set |-> TRUE, token |-> et]
                   ELSE [set |-> FALSE, token |-> NoETag]

\* PutObject's error dropped.
WriteErrorSwallowed(r) == Nil

\* _, err = client.PutObject(..); if err != nil { return fmt.Errorf(...) }
WriteError(r) == IF r = "ok" THEN Nil ELSE "failed writing"

\* ----------------------------------------------------------- MutateObject
\* A loop that goes round again on every error.
RetryAnyError(e) == e # Nil

\* if err == ErrIndexOutOfDate { continue }
ShouldRetry(e) == e = ErrIndexOutOfDate

\* A loop without a bound that starts over whenever the fetch failed.
LoopForever(p, e) ==
    IF e = "failed to fetch attributes"
    THEN /\ pc' = [pc EXCEPT ![p] = "get"]
         /\ i' = [i EXCEPT ![p] = @ + 1]
         /\ err' = err
    ELSE /\ pc' = [pc EXCEPT ![p] = "returned"]
         /\ i' = i
         /\ err' = [err EXCEPT ![p] = e]

\* The loop of MutateObject after an attempt that returned e.
Loop(p, e) ==
    IF ShouldRetry(e)
    THEN IF i[p] + 1 < MaxAttempts
         THEN /\ pc' = [pc EXCEPT ![p] = "get"]
              /\ i' = [i EXCEPT ![p] = @ + 1]
              /\ err' = err
         ELSE /\ pc' = [pc EXCEPT ![p] = "returned"]
              /\ i' = [i EXCEPT ![p] = @ + 1]
              /\ err' = [err EXCEPT ![p] = "max conflicts attempted"]
    ELSE /\ pc' = [pc EXCEPT ![p] = "returned"]
         /\ i' = i
         /\ err' = [err EXCEPT ![p] = e]

\* MutateObject's call of mutateObjectInner returned e.
Returns(p, e) ==
    /\ inner' = [inner EXCEPT ![p] = e]
    /\ Loop(p, e)

NoGet == [body |-> <<>>, etag |-> NoETag]
NoPut == [ifMatch |-> IfMatchOf(NoETag), body |-> <<>>]

\* No S3Archive call is running.
NoArchive == [pc |-> "none", entries |-> <<>>, aliases |-> 0, k |-> 0,
              puts |-> <<>>, failed |-> FALSE, err |-> Nil]

MutatorInit ==
    /\ obj \in {NoObject, [exists |-> TRUE, body |-> <<0>>, etag |-> 1]}
    /\ alwaysConflict \in BOOLEAN
    /\ ncalls = 0
    /\ writes = <<>>
    /\ pc = [p \in Procs |-> "idle"]
    /\ i = [p \in Procs |-> 0]
    /\ etag = [p \in Procs |-> NoETag]
    /\ outFile \in [Procs -> {NoFile, File(<<0>>)}]
    /\ f = [p \in Procs |-> "noop"]
    /\ entry = [p \in Procs |-> 0]
    /\ err = [p \in Procs |-> Nil]
    /\ inner = [p \in Procs |-> "none"]
    /\ getErr = [p \in Procs |-> "none"]
    /\ putErr = [p \in Procs |-> "none"]
    /\ gets = [p \in Procs |-> 0]
    /\ closures = [p \in Procs |-> 0]
    /\ puts = [p \in Procs |-> 0]
    /\ before = [p \in Procs |-> NoFile]
    /\ seen = [p \in Procs |-> NoFile]
    /\ lastGet = [p \in Procs |-> NoGet]
    /\ lastPut = [p \in Procs |-> NoPut]

Init ==
    /\ MutatorInit
    /\ archive = NoArchive

\* A publisher calls MutateObject(outDir, client, bucket, prefix, filename, f).
\* Publishers differ only in their staging directories, and Init covers every
\* assignment of staging files, so they make their first calls in index order.
MutateObject(p) ==
    /\ pc[p] \in {"idle", "returned"}
    /\ \A q \in Procs : q < p => pc[q] # "idle"
    /\ ncalls < MaxCalls
    /\ ncalls' = ncalls + 1
    /\ \E k \in Closures : f' = [f EXCEPT ![p] = k]
    /\ entry' = [entry EXCEPT ![p] = ncalls + 1]
    /\ pc' = [pc EXCEPT ![p] = "get"]
    /\ i' = [i EXCEPT ![p] = 0]
    /\ etag' = [etag EXCEPT ![p] = NoETag]
    /\ err' = [err EXCEPT ![p] = Nil]
    /\ inner' = [inner EXCEPT ![p] = "none"]
    /\ getErr' = [getErr EXCEPT ![p] = "none"]
    /\ putErr' = [putErr EXCEPT ![p] = "none"]
    /\ gets' = [gets EXCEPT ![p] = 0]
    /\ closures' = [closures EXCEPT ![p] = 0]
    /\ puts' = [puts EXCEPT ![p] = 0]
    /\ before' = [before EXCEPT ![p] = outFile[p]]
    /\ seen' = [seen EXCEPT ![p] = NoFile]
    /\ lastGet' = [lastGet EXCEPT ![p] = NoGet]
    /\ lastPut' = [lastPut EXCEPT ![p] = NoPut]
    /\ UNCHANGED <<obj, alwaysConflict, writes, outFile, archive>>

\* mutateObjectInner up to the closure: GetObject, the etag, io.ReadAll and
\* os.WriteFile of the staging file.
GetObject(p) ==
    /\ pc[p] = "get"
    /\ gets' = [gets EXCEPT ![p] = @ + 1]
    /\ before' = [before EXCEPT ![p] = outFile[p]]
    /\ putErr' = [putErr EXCEPT ![p] = "none"]
    /\ \E r \in GetResponses(obj), io \in {"ok", "ReadAll", "WriteFile"} :
        /\ getErr' = [getErr EXCEPT ![p] = r]
        /\ etag' = [etag EXCEPT ![p] = ETagOf(r, obj)]
        /\ IF FetchError(r) # Nil
           THEN /\ io = "ok"
                /\ Returns(p, FetchError(r))
                /\ UNCHANGED <<outFile, lastGet>>
           ELSE IF r # "ok"
           THEN /\ io = "ok"    \* objResult == nil: nothing is read or staged
                /\ outFile' = [outFile EXCEPT ![p] = Staged(r, obj.body, @)]
                /\ pc' = [pc EXCEPT ![p] = "action"]
                /\ UNCHANGED <<i, err, inner, lastGet>>
           ELSE /\ lastGet' = [lastGet EXCEPT ![p] =
                                  [body |-> obj.body, etag |-> obj.etag]]
                /\ CASE io = "ReadAll" ->
                          /\ Returns(p, "read failed")
                          /\ UNCHANGED outFile
                     [] io = "WriteFile" ->
                          \* the file may have been truncated already
                          /\ Returns(p, "write file failed")
                          /\ \E t \in {outFile[p], File(<<>>)} :
                                outFile' = [outFile EXCEPT ![p] = t]
                     [] OTHER ->
                          /\ outFile' = [outFile EXCEPT ![p] =
                                            Staged(r, obj.body, @)]
                          /\ pc' = [pc EXCEPT ![p] = "action"]
                          /\ UNCHANGED <<i, err, inner>>
    /\ UNCHANGED <<obj, alwaysConflict, ncalls, writes, f, entry, closures,
                   puts, seen, lastPut, archive>>

\* The closure runs, then os.Open(outFile).  When the open fails res is nil
\* and res.Name() dereferences it: the program panics.
RunAction(p) ==
    /\ pc[p] = "action"
    /\ closures' = [closures EXCEPT ![p] = @ + 1]
    /\ seen' = [seen EXCEPT ![p] = outFile[p]]
    /\ IF ActionError(f[p]) # Nil
       THEN /\ Returns(p, ActionError(f[p]))
            /\ UNCHANGED outFile
       ELSE /\ outFile' = [outFile EXCEPT ![p] = Mutate(f[p], entry[p], @)]
            /\ pc' = [pc EXCEPT ![p] =
                        IF outFile'[p].exists THEN "put" ELSE "panic"]
            /\ UNCHANGED <<i, err, inner>>
    /\ UNCHANGED <<obj, alwaysConflict, ncalls, writes, etag, f, entry,
                   getErr, putErr, gets, puts, before, lastGet, lastPut,
                   archive>>

\* PutObject with the staging file as body, and the return to MutateObject.
PutObject(p) ==
    /\ pc[p] = "put"
    /\ puts' = [puts EXCEPT ![p] = @ + 1]
    /\ LET in == [ifMatch |-> IfMatchOf(etag[p]), body |-> outFile[p].data]
       IN /\ lastPut' = [lastPut EXCEPT ![p] = in]
          /\ \E r \in PutResponses(obj, in.ifMatch, alwaysConflict) :
               /\ putErr' = [putErr EXCEPT ![p] = r]
               /\ IF r = "ok"
                  THEN /\ obj' = Stored(obj, in.body)
                       /\ writes' = Append(writes,
                             [proc |-> p, entry |-> entry[p],
                              basedOn |-> etag[p], replaced |-> obj.etag,
                              body |-> in.body, etag |-> obj.etag + 1])
                  ELSE UNCHANGED <<obj, writes>>
               /\ Returns(p, WriteError(r))
    /\ UNCHANGED <<alwaysConflict, ncalls, etag, outFile, f, entry, getErr,
                   gets, closures, before, seen, lastGet, archive>>

Next == \E p \in Procs :
    \/ MutateObject(p)
    \/ GetObject(p)
    \/ RunAction(p)
    \/ PutObject(p)

Spec == Init /\ [][Next]_vars

\* -------------------------------------------------------------- S3Archive
MaxEntries == 3         \* entries filepath.Walk visits under manifest.Directory
MaxAliases == 2         \* len(aliases)

Version == "manifest.Version"

\* What filepath.Walk hands to the callback: a directory, a regular file, or
\* an entry it could not stat or list (err != nil).
EntryKinds == {"dir", "file", "unreadable"}

Walks == UNION {[1..m -> EntryKinds] : m \in 0..MaxEntries}

\* objName of the k-th walked file and of the a-th alias.
FileKey(k) == [dir |-> Version, name |-> k]
AliasKey(a) == [dir |-> "", name |-> a]

\* An upload error that is only logged.
PutFileErrorLogged(r) == Nil

\* _, err = client.PutObject(..); if err != nil { return "failed to put object" }
PutFileError(r) == IF r = "ok" THEN Nil ELSE "failed to put object"

\* f, err := os.Open(p); if err != nil { return "failed to open" }
OpenError(r) == IF r = "ok" THEN Nil ELSE "failed to open"

\* if err := filepath.Walk(..); err != nil { return "failed to walk directory" }
WalkError(e) == IF e = Nil THEN Nil ELSE "failed to walk directory"

\* if err != nil { return fmt.Errorf("failed to write alias ..") }
AliasError(r) == IF r = "ok" THEN Nil ELSE "failed to write alias"

\* S3Archive returns e.
ArchiveReturn(e) == [archive EXCEPT !.pc = "done", !.err = e]

ArchiveInit ==
    /\ MutatorInit
    /\ obj = NoObject
    /\ ~alwaysConflict
    /\ outFile = [p \in Procs |-> NoFile]
    /\ \E w \in Walks, n \in 0..MaxAliases :
          archive = [pc |-> "client", entries |-> w, aliases |-> n, k |-> 1,
                     puts |-> <<>>, failed |-> FALSE, err |-> Nil]

\* client, err := NewS3Client(ctx); if err != nil { return err }
NewS3Client ==
    /\ archive.pc = "client"
    /\ \E r \in {"ok", "Failure"} :
          archive' = IF r = "ok" THEN [archive EXCEPT !.pc = "walk"]
                                 ELSE ArchiveReturn("config failed")
    /\ UNCHANGED mutatorVars

\* One call of the callback filepath.Walk is given: the next entry.  An error
\* the callback returns ends the walk and S3Archive.
WalkFn ==
    /\ archive.pc = "walk"
    /\ archive.k <= Len(archive.entries)
    /\ LET e == archive.entries[archive.k]
           on == [archive EXCEPT !.k = @ + 1]
       IN CASE e = "unreadable" ->
                 archive' = ArchiveReturn(WalkError("lstat failed"))
            [] e = "dir" -> archive' = on
            [] OTHER ->
                 \E o \in {"ok", "Failure"}, r \in {"ok", "Failure"} :
                    IF OpenError(o) # Nil
                    THEN /\ r = "ok"
                         /\ archive' = [ArchiveReturn(WalkError(OpenError(o)))
                                           EXCEPT !.failed = TRUE]
                    ELSE LET put == IF r = "ok"
                                    THEN [on EXCEPT !.puts = Append(@,
                                            [key |-> FileKey(archive.k),
                                             body |-> "file"])]
                                    ELSE [on EXCEPT !.failed = TRUE]
                         IN archive' =
                              IF PutFileError(r) # Nil
                              THEN [put EXCEPT !.pc = "done",
                                      !.err = WalkError(PutFileError(r))]
                              ELSE put
    /\ UNCHANGED mutatorVars

\* filepath.Walk has visited every entry and returns nil: the alias loop starts.
WalkReturns ==
    /\ archive.pc = "walk"
    /\ archive.k > Len(archive.entries)
    /\ archive' = [archive EXCEPT !.pc = "aliases", !.k = 1]
    /\ UNCHANGED mutatorVars

\* for _, alias := range aliases { PutObject(alias, manifest.Version) }
WriteAlias ==
    /\ archive.pc = "aliases"
    /\ archive.k <= archive.aliases
    /\ \E r \in {"ok", "Failure"} :
          archive' =
            IF AliasError(r) # Nil THEN ArchiveReturn(AliasError(r))
            ELSE [archive EXCEPT !.k = @ + 1,
                    !.puts = Append(@, [key |-> AliasKey(archive.k),
                                        body |-> Version])]
    /\ UNCHANGED mutatorVars

\* return nil
ArchiveReturns ==
    /\ archive.pc = "aliases"
    /\ archive.k > archive.aliases
    /\ archive' = ArchiveReturn(Nil)
    /\ UNCHANGED mutatorVars

ArchiveNext ==
    \/ NewS3Client
    \/ WalkFn
    \/ WalkReturns
    \/ WriteAlias
    \/ ArchiveReturns

ArchiveSpec == ArchiveInit /\ [][ArchiveNext]_vars


\* ------------------------------------------------------------- the claims
Returned(p) == pc[p] = "returned"

\* The accepted Puts of p's current call.
Mine(p) == {k \in DOMAIN writes : writes[k].entry = entry[p]}

\* The object did not exist when the behaviour started.
InitiallyAbsent ==
    IF writes = <<>> THEN ~obj.exists ELSE writes[1].replaced = NoETag

\* C1: against the real store, an accepted Put replaces exactly the version
\* its attempt fetched (the ETag did not change between the attempt's Get and
\* its Put), and a Put the store rejected with PreconditionFailed ends the
\* attempt with the Conflict outcome ErrIndexOutOfDate.
C1_ConflictDetection ==
    ~alwaysConflict =>
        /\ \A k \in DOMAIN writes : writes[k].basedOn = writes[k].replaced
        /\ \A p \in Procs :
             putErr[p] = "PreconditionFailed" => inner[p] = ErrIndexOutOfDate

\* C2: with the store whose Put always reports Conflict, a call whose
\* attempts got as far as the Put returns "max conflicts attempted" after
\* exactly 10 attempts, its closure invoked exactly 10 times.
C2_RetryBound ==
    \A p \in Procs :
        (alwaysConflict /\ Returned(p) /\ putErr[p] = "PreconditionFailed") =>
            /\ err[p] = "max conflicts attempted"
            /\ gets[p] = MaxAttempts
            /\ closures[p] = MaxAttempts
            /\ puts[p] = MaxAttempts

IsEntry(e) == e # 0

\* C3: when every publisher has made one append call against the object that
\* was absent at the start, and neither store nor disk failed, exactly as many
\* Puts were accepted as there were calls and the object holds every call's
\* entry, in the order the Puts were accepted.
C3_Convergence ==
    ( /\ ~alwaysConflict
      /\ InitiallyAbsent
      /\ ncalls = NumProcs
      /\ \A p \in Procs :
            /\ Returned(p)
            /\ f[p] = "append"
            /\ getErr[p] # "Failure"
            /\ putErr[p] # "Failure"
            /\ err[p] \notin {"read failed", "write file failed"} )
    =>
    /\ Len(writes) = NumProcs
    /\ SelectSeq(obj.body, IsEntry) = [k \in 1..NumProcs |-> writes[k].entry]

\* C4: an attempt whose Get reported NotFound does not end at the fetch; its
\* closure finds the staging file as it was before the attempt, existing or
\* not; when the closure succeeds and leaves a staging file a Put follows, and
\* the Put carries no IfMatch.
C4_NotFoundBootstrap ==
    \A p \in Procs :
        getErr[p] = "NotFound" =>
            /\ inner[p] # "failed to fetch attributes"
            /\ pc[p] = "action" \/ closures[p] = 1
            /\ closures[p] = 1 => seen[p] = before[p]
            /\ (Returned(p) /\ ~ActionFails(f[p])) => puts[p] = 1
            /\ puts[p] = 1 => ~lastPut[p].ifMatch.set
            /\ pc[p] = "put" => ~IfMatchOf(etag[p]).set

\* Two publishers bootstrapped the absent object, one with a staging file on
\* disk before the call and one without.
C4_Witness ==
    \E p, q \in Procs :
        /\ getErr[p] = "NotFound" /\ getErr[q] = "NotFound"
        /\ puts[p] = 1 /\ puts[q] = 1
        /\ before[p].exists /\ ~before[q].exists
        /\ putErr[p] = "ok"
        /\ ~lastPut[p].ifMatch.set /\ ~lastPut[q].ifMatch.set

\* C5: a Get that fails with something other than NotFound, or a Put that
\* fails with something other than PreconditionFailed, ends MutateObject with
\* that failure after one attempt: one Get, the closure invoked at most once,
\* and nothing issued after the failure.
C5_NoRetryOnFailure ==
    \A p \in Procs :
        /\ getErr[p] = "Failure" =>
              /\ Returned(p)
              /\ err[p] = "failed to fetch attributes"
              /\ gets[p] = 1 /\ closures[p] = 0 /\ puts[p] = 0
        /\ putErr[p] = "Failure" =>
              /\ Returned(p)
              /\ err[p] = "failed writing"
              /\ gets[p] = 1 /\ closures[p] = 1 /\ puts[p] = 1

\* One call ended on a failed Get and another on a failed Put.
C5_Witness ==
    \E p, q \in Procs :
        /\ getErr[p] = "Failure" /\ Returned(p)
        /\ putErr[q] = "Failure" /\ Returned(q)

\* C6: an attempt below the tenth whose Put reported PreconditionFailed is
\* followed by a further attempt: MutateObject goes back to the Get instead of
\* returning.
C6_RetryOnConflict ==
    [][\A p \in Procs :
         ( /\ pc[p] = "put"
           /\ putErr'[p] = "PreconditionFailed"
           /\ gets[p] < MaxAttempts )
         => pc'[p] = "get"]_vars

\* C7: when the closure returns an error MutateObject returns "action failed"
\* at once: no Put was issued, the closure ran once, and no Put of this call
\* was accepted by the store.
C7_MutationFailureFatal ==
    \A p \in Procs :
        (closures[p] >= 1 /\ ActionFails(f[p])) =>
            /\ Returned(p)
            /\ err[p] = "action failed"
            /\ closures[p] = 1
            /\ puts[p] = 0
            /\ Mine(p) = {}

\* A closure failed on content fetched from an existing object.
C7_Witness ==
    \E p \in Procs :
        /\ ActionFails(f[p]) /\ closures[p] = 1 /\ Returned(p)
        /\ getErr[p] = "ok"
        /\ writes # <<>>

\* C8: a call has at most one accepted Put; it returns nil exactly when one
\* of its Puts was accepted, so a call that returned an error (or panicked)
\* changed nothing in the store.
C8_NoPartialSuccess ==
    \A p \in Procs :
        /\ Cardinality(Mine(p)) <= 1
        /\ Returned(p) => (err[p] = Nil <=> Cardinality(Mine(p)) = 1)
        /\ ~Returned(p) => Mine(p) = {}

\* One call returned nil after its accepted Put while another returned
\* "failed writing" with nothing accepted.
C8_Witness ==
    \E p, q \in Procs :
        /\ Returned(p) /\ err[p] = Nil /\ Cardinality(Mine(p)) = 1
        /\ Returned(q) /\ err[q] = "failed writing" /\ Mine(q) = {}
        /\ putErr[q] = "PreconditionFailed"

\* C9: with nobody else writing, a call against the absent object issues one
\* Put without IfMatch whose body is what its closure left; the same
\* publisher's next call issues one Get that returns that body and its ETag,
\* runs the closure once on that body, and issues one Put whose IfMatch is
\* that ETag and whose body is the closure's result on that body.
C9_SequentialRoundTrip ==
    \A p \in Procs :
        ( /\ Returned(p) /\ err[p] = Nil
          /\ InitiallyAbsent
          /\ \A k \in DOMAIN writes : writes[k].proc = p
          /\ writes # <<>>
          /\ writes[Len(writes)].entry = entry[p] )
        =>
        /\ gets[p] = 1 /\ closures[p] = 1 /\ puts[p] = 1
        /\ obj.body = lastPut[p].body
        /\ Len(writes) = 1 =>
              /\ ~lastPut[p].ifMatch.set
              /\ seen[p] = before[p]
              /\ lastPut[p].body = Mutate(f[p], entry[p], before[p]).data
        /\ Len(writes) > 1 =>
              LET w == writes[Len(writes) - 1]
              IN /\ lastGet[p] = [body |-> w.body, etag |-> w.etag]
                 /\ seen[p] = File(w.body)
                 /\ lastPut[p].ifMatch = [set |-> TRUE, token |-> w.etag]
                 /\ lastPut[p].body = Mutate(f[p], entry[p], File(w.body)).data

\* A publisher wrote <<1>> to the absent object and appended 2 in its next call.
C9_Witness ==
    \E p \in Procs :
        /\ Returned(p) /\ err[p] = Nil
        /\ Len(writes) = 2
        /\ writes[1].proc = p /\ writes[2].proc = p
        /\ writes[1].replaced = NoETag
        /\ writes[1].body = <<1>>
        /\ f[p] = "append"
        /\ obj.body = <<1, 2>>
        /\ lastPut[p].ifMatch = [set |-> TRUE, token |-> 1]

\* C10: of the attempts that fetched the same remote state (the same ETag,
\* or no object) at most one has its Put accepted.
C10_SingleWinner ==
    \A j, k \in DOMAIN writes :
        j # k => writes[j].basedOn # writes[k].basedOn

\* C11: every Put carries as IfMatch exactly the ETag the Get of the same
\* attempt returned, and carries no IfMatch exactly when that Get found no
\* object.
C11_TokenFreshness ==
    \A p \in Procs :
        LET want == IF getErr[p] = "ok"
                    THEN [set |-> TRUE, token |-> lastGet[p].etag]
                    ELSE [set |-> FALSE, token |-> NoETag]
        IN /\ puts[p] >= 1 => lastPut[p].ifMatch = want
           /\ pc[p] = "put" => IfMatchOf(etag[p]) = want
           /\ puts[p] >= 1 => (~lastPut[p].ifMatch.set <=> getErr[p] = "NotFound")

\* A second call's Put was conditioned on the ETag the first call's write was
\* given, and accepted.
C11_Witness ==
    \E p \in Procs :
        /\ Len(writes) = 2
        /\ writes[2].entry = entry[p]
        /\ getErr[p] = "ok" /\ puts[p] = 1
        /\ lastGet[p].etag = writes[1].etag
        /\ lastPut[p].ifMatch = [set |-> TRUE, token |-> writes[1].etag]

\* C12: in an attempt whose Get returned an object the closure finds in the
\* staging file exactly the body that Get returned, whatever the file held
\* before; and the body of the attempt's Put is the staging file as the
\* closure left it.
C12_StagingReflectsFetch ==
    \A p \in Procs :
        /\ (getErr[p] = "ok" /\ pc[p] = "action") =>
              outFile[p] = File(lastGet[p].body)
        /\ (getErr[p] = "ok" /\ closures[p] >= 1) =>
              seen[p] = File(lastGet[p].body)
        /\ puts[p] >= 1 =>
              /\ lastPut[p].body = outFile[p].data
              /\ lastPut[p].body = Mutate(f[p], entry[p], seen[p]).data

\* A fetch replaced staging content that differed from the fetched body, and
\* the closure's result on the fetched body was put and accepted.
C12_Witness ==
    \E p \in Procs :
        /\ getErr[p] = "ok"
        /\ before[p].exists /\ before[p].data # lastGet[p].body
        /\ f[p] = "append"
        /\ puts[p] = 1 /\ putErr[p] = "ok"
        /\ obj.body = Append(lastGet[p].body, entry[p])

\* C13: in an attempt whose Get reported NotFound the staging file is not
\* touched before the closure runs: the closure finds exactly what was on
\* disk before the attempt.
C13_NotFoundKeepsStaging ==
    \A p \in Procs :
        getErr[p] = "NotFound" =>
            /\ pc[p] = "action" => outFile[p] = before[p]
            /\ closures[p] >= 1 => seen[p] = before[p]

\* A publisher's second call got NotFound and its closure found the content
\* its first call had left in the staging directory.
C13_Witness ==
    \E p \in Procs :
        /\ getErr[p] = "NotFound"
        /\ entry[p] = 2
        /\ closures[p] = 1
        /\ seen[p] = File(<<1>>)

\* The next step of p's MutateObject invocation.
Step(p) == GetObject(p) \/ RunAction(p) \/ PutObject(p)

\* C14: whatever the store and the other publishers do, an invocation makes
\* at most 10 attempts (at most 10 Gets, 10 closure invocations, 10 Puts, each
\* attempt having at most one of each), and an invocation that has not ended
\* can always take its next step: bounded work and no waiting, so it ends.
C14_BoundedTermination ==
    \A p \in Procs :
        /\ i[p] <= MaxAttempts
        /\ gets[p] <= MaxAttempts
        /\ closures[p] <= gets[p]
        /\ puts[p] <= closures[p]
        /\ pc[p] \in {"get", "action", "put"} => ENABLED Step(p)
        /\ pc[p] \in {"idle", "get", "action", "put", "returned", "panic"}

\* Under the real store a call lost a race (its Put was rejected with
\* PreconditionFailed) and has returned within the bound.
C14_Witness ==
    \E p \in Procs :
        /\ ~alwaysConflict
        /\ Returned(p)
        /\ putErr[p] = "PreconditionFailed"
        /\ gets[p] >= 1 /\ gets[p] <= MaxAttempts

\* C15: when Get fails with something other than NotFound the attempt ends
\* there: the closure is not invoked, no Put is issued, the staging file is
\* as it was before the attempt and nothing of this call reached the store.
C15_FetchFailureNoSideEffects ==
    \A p \in Procs :
        getErr[p] = "Failure" =>
            /\ Returned(p)
            /\ closures[p] = 0
            /\ puts[p] = 0
            /\ outFile[p] = before[p]
            /\ Mine(p) = {}

\* A Get failed although the object exists and a staging file was on disk.
C15_Witness ==
    \E p \in Procs :
        /\ getErr[p] = "Failure"
        /\ Returned(p)
        /\ obj.exists
        /\ before[p].exists

\* C16: when the staging file cannot be opened after the closure has run,
\* MutateObject returns a "failed to open" error, without a Put and without
\* another attempt; it never panics.
C16_OpenFailureIsError ==
    \A p \in Procs :
        /\ pc[p] # "panic"
        /\ (closures[p] >= 1 /\ ~ActionFails(f[p]) /\ ~outFile[p].exists) =>
              /\ Returned(p)
              /\ err[p] = "failed to open"
              /\ puts[p] = 0

\* The walked files, and the files and aliases S3Archive has uploaded.
WalkedFiles == {k \in DOMAIN archive.entries : archive.entries[k] = "file"}
IsAlias(u) == u.key.dir = ""
UploadedFiles ==
    {archive.puts[j].key.name :
        j \in {n \in DOMAIN archive.puts : ~IsAlias(archive.puts[n])}}
AliasesWritten == {j \in DOMAIN archive.puts : IsAlias(archive.puts[j])}

\* C17: S3Archive writes an alias object, whose body is the manifest version,
\* only after every walked entry was readable and every file was uploaded, all
\* uploads preceding all aliases; and when a file could not be opened or
\* uploaded S3Archive has returned an error and written no alias.
C17_AliasesLast ==
    /\ AliasesWritten # {} =>
          /\ UploadedFiles = WalkedFiles
          /\ \A k \in DOMAIN archive.entries :
                archive.entries[k] # "unreadable"
          /\ ~archive.failed
    /\ \A j \in AliasesWritten :
          /\ archive.puts[j].body = Version
          /\ \A n \in DOMAIN archive.puts : n > j => n \in AliasesWritten
    /\ archive.failed =>
          /\ archive.pc = "done"
          /\ archive.err # Nil
          /\ AliasesWritten = {}

\* S3Archive returned nil having uploaded two files and then two aliases.
C17_Witness ==
    /\ archive.pc = "done" /\ archive.err = Nil
    /\ Cardinality(WalkedFiles) = 2
    /\ UploadedFiles = WalkedFiles
    /\ Cardinality(AliasesWritten) = 2

==========================================================================
